---- MODULE Spec2Model ----
(***************************************************************************)
(* Model of the game folder renamer: src/game_renamer.py (IGDBClient,      *)
(* GameFolderRenamer) and src/rename_games.py (main).                      *)
(*                                                                         *)
(* Names are sequences of one-character strings, so that the regular       *)
(* expressions of the code act on characters as re.sub / re.match do.      *)
(***************************************************************************)
EXTENDS Integers, Sequences, FiniteSets, TLC

\* ------------------------------------------------------------------------
\* Characters and the character classes of Python's re (ASCII names only)
\* ------------------------------------------------------------------------

Digits == {"0", "1", "2", "3", "4", "5", "6", "7", "8", "9"}

LowerCase ==
    {"a", "b", "c", "d", "e", "f", "g", "h", "i", "j", "k", "l", "m",
     "n", "o", "p", "q", "r", "s", "t", "u", "v", "w", "x", "y", "z"}

UpperCase ==
    {"A", "B", "C", "D", "E", "F", "G", "H", "I", "J", "K", "L", "M",
     "N", "O", "P", "Q", "R", "S", "T", "U", "V", "W", "X", "Y", "Z"}

\* \d
IsDigit(c) == c \in Digits

\* \w
IsWord(c) == c \in Digits \cup LowerCase \cup UpperCase \cup {"_"}

\* \s, and the separators of str.split()
IsSpace(c) == c \in {" ", "\t"}

\* s[from..] as a sequence (empty when from > Len(s))
Drop(s, from) == SubSeq(s, from, Len(s))

\* s[..upto] as a sequence
Take(s, upto) == SubSeq(s, 1, upto)

\* s.endswith(lit)
EndsWith(s, lit) ==
    /\ Len(lit) <= Len(s)
    /\ SubSeq(s, Len(s) - Len(lit) + 1, Len(s)) = lit

\* ------------------------------------------------------------------------
\* IGDBClient._clean_folder_name
\* ------------------------------------------------------------------------

\* re.sub(r'-\w+$', '', s): the match starts at a "-" followed by one or
\* more word characters up to the end of the string.
StripReleaseGroup(s) ==
    LET starts == {i \in 1..Len(s) :
                      /\ s[i] = "-"
                      /\ i < Len(s)
                      /\ \A j \in (i + 1)..Len(s) : IsWord(s[j])}
    IN  IF starts = {} THEN s
        ELSE Take(s, (CHOOSE i \in starts : \A k \in starts : i <= k) - 1)

\* The position after the longest run of digits of s that starts at i.
RECURSIVE DigitsEnd(_, _)
DigitsEnd(s, i) ==
    IF i <= Len(s) /\ IsDigit(s[i]) THEN DigitsEnd(s, i + 1) ELSE i

\* The position after the longest (\.\d+)* of s that starts at i.
RECURSIVE DotGroupsEnd(_, _)
DotGroupsEnd(s, i) ==
    IF i + 1 <= Len(s) /\ s[i] = "." /\ IsDigit(s[i + 1])
    THEN DotGroupsEnd(s, DigitsEnd(s, i + 1))
    ELSE i

\* re.sub(r'v\d+(\.\d+)*', '', s): every occurrence, scanning from the left.
RECURSIVE StripVersionsFrom(_, _)
StripVersionsFrom(s, i) ==
    IF i > Len(s) THEN <<>>
    ELSE IF s[i] = "v" /\ i + 1 <= Len(s) /\ IsDigit(s[i + 1])
         THEN StripVersionsFrom(s, DotGroupsEnd(s, DigitsEnd(s, i + 1)))
         ELSE <<s[i]>> \o StripVersionsFrom(s, i + 1)

StripVersions(s) == StripVersionsFrom(s, 1)

\* re.sub(r'\([^)]*\)', '', s): from a "(" to the first ")" after it.
RECURSIVE StripParensFrom(_, _)
StripParensFrom(s, i) ==
    IF i > Len(s) THEN <<>>
    ELSE LET closes == {j \in (i + 1)..Len(s) : s[j] = ")"}
         IN  IF s[i] = "(" /\ closes # {}
             THEN StripParensFrom(
                      s, (CHOOSE j \in closes : \A k \in closes : j <= k) + 1)
             ELSE <<s[i]>> \o StripParensFrom(s, i + 1)

StripParens(s) == StripParensFrom(s, 1)

EnhancedEdition ==
    <<"E", "n", "h", "a", "n", "c", "e", "d", " ",
      "E", "d", "i", "t", "i", "o", "n">>

\* re.sub(r'Enhanced Edition$', '', s)
StripEnhancedSuffix(s) ==
    IF EndsWith(s, EnhancedEdition)
    THEN Take(s, Len(s) - Len(EnhancedEdition))
    ELSE s

\* name.replace('.', ' ').replace('_', ' ')
DotsToSpaces(s) ==
    [i \in 1..Len(s) |-> IF s[i] \in {".", "_"} THEN " " ELSE s[i]]

\* ' '.join(name.split()): runs of whitespace become one space, and the
\* whitespace at both ends goes.
RECURSIVE JoinWords(_, _, _)
JoinWords(s, i, acc) ==
    IF i > Len(s) THEN acc
    ELSE IF IsSpace(s[i]) THEN JoinWords(s, i + 1, acc)
         ELSE IF acc # <<>> /\ i > 1 /\ IsSpace(s[i - 1])
              THEN JoinWords(s, i + 1, acc \o <<" ", s[i]>>)
              ELSE JoinWords(s, i + 1, acc \o <<s[i]>>)

CollapseSpaces(s) == JoinWords(s, 1, <<>>)

\* _clean_folder_name: the four substitutions in order, then the
\* replacement of dots and underscores, then the whitespace clean-up.
CleanFolderName(folder) ==
    CollapseSpaces(
        DotsToSpaces(
            StripEnhancedSuffix(
                StripParens(
                    StripVersions(
                        StripReleaseGroup(folder))))))

\* ------------------------------------------------------------------------
\* IGDBClient.search_game: the query variants (search_variations)
\* ------------------------------------------------------------------------

DefinitiveEdition ==
    <<"D", "e", "f", "i", "n", "i", "t", "i", "v", "e", " ", "E", "d",
    "i", "t", "i", "o", "n">>

Anniversary ==
    <<"A", "n", "n", "i", "v", "e", "r", "s", "a", "r", "y">>

CompleteEdition ==
    <<"C", "o", "m", "p", "l", "e", "t", "e", " ", "E", "d", "i", "t",
    "i", "o", "n">>

GameOfTheYearEdition ==
    <<"G", "a", "m", "e", " ", "o", "f", " ", "t", "h", "e", " ", "Y",
    "e", "a", "r", " ", "E", "d", "i", "t", "i", "o", "n">>

GotyEdition ==
    <<"G", "O", "T", "Y", " ", "E", "d", "i", "t", "i", "o", "n">>

DeluxeEdition ==
    <<"D", "e", "l", "u", "x", "e", " ", "E", "d", "i", "t", "i", "o",
    "n">>

\* edition_patterns: each is \s*-?\s*<words>$ for the words listed here
edition_patterns ==
    <<EnhancedEdition, DefinitiveEdition, Anniversary, CompleteEdition,
      GameOfTheYearEdition, GotyEdition, DeluxeEdition>>

\* The start of the longest run of whitespace of s that ends before p.
RECURSIVE SpacesStart(_, _)
SpacesStart(s, p) ==
    IF p > 1 /\ IsSpace(s[p - 1]) THEN SpacesStart(s, p - 1) ELSE p

\* re.sub(r'\s*-?\s*<lit>$', '', s): the leftmost start of a match, which
\* takes the whitespace before the words, a "-" before it, and the
\* whitespace before that.
StripEdition(s, lit) ==
    IF ~EndsWith(s, lit) THEN s
    ELSE LET p == Len(s) - Len(lit) + 1
             a == SpacesStart(s, p)
             b == IF a > 1 /\ s[a - 1] = "-" THEN SpacesStart(s, a - 1) ELSE a
         IN  Take(s, b - 1)

\* Lines 62-67: the loop over edition_patterns from pattern k on; base is
\* base_name, acc the variants appended so far. Returns both.
RECURSIVE EditionLoop(_, _, _)
EditionLoop(base, acc, k) ==
    IF k > Len(edition_patterns) THEN [base_name |-> base, variations |-> acc]
    ELSE LET cleaned_name == StripEdition(base, edition_patterns[k])
         IN  IF cleaned_name # base
             THEN EditionLoop(cleaned_name, Append(acc, cleaned_name), k + 1)
             ELSE EditionLoop(base, acc, k + 1)

\* Lines 70-73: base_name.split(" ", 1) joined with ": "
WithColon(base) ==
    LET sp == CHOOSE i \in 1..Len(base) :
                  base[i] = " " /\ \A j \in 1..(i - 1) : base[j] # " "
    IN  Take(base, sp - 1) \o <<":", " ">> \o Drop(base, sp + 1)

\* Lines 42-73: search_variations for a folder name
SearchVariations(folder) ==
    LET search_query == CleanFolderName(folder)
        loop == EditionLoop(search_query, <<search_query>>, 1)
    IN  IF \E i \in 1..Len(loop.base_name) : loop.base_name[i] = " "
        THEN Append(loop.variations, WithColon(loop.base_name))
        ELSE loop.variations

\* ------------------------------------------------------------------------
\* Release years and the new folder name
\* ------------------------------------------------------------------------

IsLeap(y) == (y % 4 = 0 /\ y % 100 # 0) \/ y % 400 = 0

DaysIn(y) == IF IsLeap(y) THEN 366 ELSE 365

\* The year of the day that is `days` days after 1 January of year y.
RECURSIVE YearFrom(_, _)
YearFrom(y, days) ==
    IF days < DaysIn(y) THEN y ELSE YearFrom(y + 1, days - DaysIn(y))

\* datetime.fromtimestamp(ts).year for ts >= 0 (zone taken as UTC)
YearOf(ts) == YearFrom(1970, ts \div 86400)

\* str(n) for n >= 0
RECURSIVE DecimalString(_)
DecimalString(n) ==
    LET d == <<"0", "1", "2", "3", "4", "5", "6", "7", "8", "9">>[(n % 10) + 1]
    IN  IF n < 10 THEN <<d>> ELSE Append(DecimalString(n \div 10), d)

\* release_date as search_game returns it: a year, or the string "TBA"
KnownYear(y) == [known |-> TRUE, year |-> y]

TBA == [known |-> FALSE, year |-> 0]

\* NewName with the year written with two digits
NewName_ShortYear(game_name, release_year) ==
    IF release_year # [known |-> FALSE, year |-> 0]
    THEN game_name \o <<" ", "(">>
             \o DecimalString(release_year.year % 100) \o <<")">>
    ELSE game_name

\* NewName without the space before the year
NewName_NoSpace(game_name, release_year) ==
    IF release_year # [known |-> FALSE, year |-> 0]
    THEN game_name \o <<"(">> \o DecimalString(release_year.year) \o <<")">>
    ELSE game_name

\* Line 219: f"{game_name} ({release_year})" if release_year != "TBA"
\* else game_name
NewName(game_name, release_year) ==
    IF release_year # TBA
    THEN game_name \o <<" ", "(">> \o DecimalString(release_year.year) \o <<")">>
    ELSE game_name

\* IsCanonical with \d{3} for \d{4} in the pattern
IsCanonical_ThreeDigits(folder) ==
    LET n == Len(folder)
    IN  /\ n >= 7
        /\ folder[n - 5] = " "
        /\ folder[n - 4] = "("
        /\ \A i \in (n - 3)..(n - 1) : IsDigit(folder[i])
        /\ folder[n] = ")"

\* Line 208: re.match(r'.+ \(\d{4}\)$', folder_name)
IsCanonical(folder) ==
    LET n == Len(folder)
    IN  /\ n >= 8
        /\ folder[n - 6] = " "
        /\ folder[n - 5] = "("
        /\ \A i \in (n - 4)..(n - 1) : IsDigit(folder[i])
        /\ folder[n] = ")"

\* ------------------------------------------------------------------------
\* The world the program runs in: folder names, catalog records, inputs
\* ------------------------------------------------------------------------

DoomCanonical ==
    <<"D", "o", "o", "m", " ", "(", "1", "9", "9", "3", ")">>

PortalRaw ==
    <<"P", "o", "r", "t", "a", "l", "2">>

CyberpunkRaw ==
    <<"C", "y", "b", "e", "r", "p", "u", "n", "k", ".", "2", "0", "7",
    "7", "-", "R", "U", "N", "E">>

HaloEnhanced ==
    <<"H", "a", "l", "o", " ", "I", "n", "f", "i", "n", "i", "t", "e",
    " ", "E", "n", "h", "a", "n", "c", "e", "d", " ", "E", "d", "i",
    "t", "i", "o", "n">>

HaloDefinitive ==
    <<"H", "a", "l", "o", " ", "I", "n", "f", "i", "n", "i", "t", "e",
    " ", "D", "e", "f", "i", "n", "i", "t", "i", "v", "e", " ", "E",
    "d", "i", "t", "i", "o", "n">>

NotesFile ==
    <<"n", "o", "t", "e", "s", ".", "t", "x", "t">>

PortalTitle ==
    <<"P", "o", "r", "t", "a", "l", " ", "2">>

PortalCanonical ==
    <<"P", "o", "r", "t", "a", "l", " ", "2", " ", "(", "2", "0", "1", "1",
      ")">>

DoomTitle ==
    <<"D", "o", "o", "m">>

GameTitle ==
    <<"G", "a", "m", "e", " ">>

\* Catalog records as the JSON objects of the response: a key the catalog
\* did not send is not in the record's DOMAIN. Release dates are seconds
\* since the epoch (19 April 2011, 10 December 1993).
PortalGame == [name |-> PortalTitle, first_release_date |-> 1303171200]

PortalUndated == [name |-> PortalTitle]

DoomGame ==
    [name |-> DoomTitle, first_release_date |-> 755481600,
     version_parent |-> 1]

\* The i-th record of a long result list: records 1 and 2 are Doom and the
\* undated Portal 2, the others are "Game <i>" with a release date, with a
\* release timestamp of 0, or undated.
ListedGame(i) ==
    IF i = 1 THEN DoomGame
    ELSE IF i = 2 THEN PortalUndated
    ELSE IF i % 3 = 0
         THEN [name |-> GameTitle \o DecimalString(i),
               first_release_date |-> 1303171200]
    ELSE IF i % 3 = 1
         THEN [name |-> GameTitle \o DecimalString(i),
               first_release_date |-> 0, version_parent |-> i]
    ELSE [name |-> GameTitle \o DecimalString(i)]

ResultList(n) == [i \in 1..n |-> ListedGame(i)]

\* The result lists a search may return with status 200 (at most `limit`
\* records): none, one record, or several over one, two or three pages.
ResultLists ==
    {<<>>, <<PortalGame>>, <<PortalUndated>>, <<DoomGame>>,
     ResultList(2), ResultList(6), ResultList(11)}

\* A response of the search endpoint: its status code and its JSON body
\* (a failed request's body is never read).
Responses ==
    {[status_code |-> 200, json |-> g] : g \in ResultLists}
        \cup {[status_code |-> 500, json |-> <<>>]}

\* What the operator may type at the prompt
Inputs ==
    {<<"s">>, <<"S">>, <<"m">>, <<"1">>, <<"2">>, <<"7">>, <<"1", "2">>,
     <<"0">>, <<"-", "1">>, <<" ", "2">>, <<"x">>, <<>>}

\* A directory entry: its name, whether it is a directory, which folder it
\* is (id, 0 for a file) and whether the folder holds nothing.
Dir(name, id, empty) ==
    [name |-> name, isdir |-> TRUE, id |-> id, empty |-> empty]

File(name) == [name |-> name, isdir |-> FALSE, id |-> 0, empty |-> FALSE]

\* The roots a run may start from, each in the order os.listdir gives.
InitialRoots ==
    {<<Dir(DoomCanonical, 1, FALSE), File(NotesFile),
       Dir(PortalRaw, 2, FALSE)>>,
     <<Dir(HaloDefinitive, 1, TRUE), Dir(PortalCanonical, 2, TRUE)>>}

\* The folders of a root
FolderIds == {1, 2}

\* ------------------------------------------------------------------------
\* State
\* ------------------------------------------------------------------------

\* Bounds of the model
MaxTime == 2

MaxRuns == 2

VARIABLES
    pc,                 \* where the program is
    env,                \* the environment variables main read, if it ran
    crash,              \* the exception that ended the program, or "none"
    root,               \* the entries under base_path, in listing order
    listing,            \* os.listdir(base_path) as taken on line 193
    idx,                \* position of the for loop of line 193 in listing
    runs,               \* calls of process_folders so far
    stats,              \* GameFolderRenamer.stats
    now,                \* time.time()
    access_token,       \* IGDBClient.access_token
    token_expires,      \* IGDBClient.token_expires
    folder_name,        \* _process_single_folder's argument
    search_variations,  \* search_game's list of queries
    vi,                 \* position of the for loop of line 81
    response,           \* the response of the last search
    games,              \* the result list search_game works on
    page,               \* the page shown at the prompt
    game,               \* the record search_game picked
    game_info,          \* what search_game returned
    queries,            \* the queries this call of search_game has sent
    failed_search,      \* whether one of them got a failure for a response
    auth_requested,     \* whether this folder's search_game asked for a token
    prompted,           \* whether an input was read for this folder
    choice,             \* the input read last at the prompt (line 132)
    outcome,            \* how the last folder ended
    history             \* per folder id, how a run renamed it, if at all

vars ==
    <<pc, env, crash, root, listing, idx, runs, stats, now, access_token,
      token_expires, folder_name, search_variations, vi, response, games,
      page, game, game_info, queries, failed_search, auth_requested,
      prompted, choice, outcome, history>>

\* search_game's loop variables
loopvars == <<search_variations, vi, response, page, queries, failed_search>>

\* What is known of the resolution of the folder at hand
resolution == <<games, game, game_info, prompted, choice>>

locals == <<folder_name, loopvars, resolution, auth_requested>>

client == <<access_token, token_expires>>

\* Python's None, for a record or a result; for the token, which is a string
None == [none |-> TRUE]

NoToken == "<None>"

\* No input has been read yet
NoChoice == <<"<None>">>

\* os.environ.get of a variable that is not set
Unset == "<None>"

ZeroStats == [total |-> 0, renamed |-> 0, skipped |-> 0, errors |-> 0]

\* IGDBClient.__init__ and GameFolderRenamer.__init__, over any root
Init ==
    /\ pc = "start"
    /\ env = [read |-> FALSE]
    /\ crash = "none"
    /\ root \in InitialRoots
    /\ listing = <<>>
    /\ idx = 0
    /\ runs = 0
    /\ stats = ZeroStats
    /\ now = 0
    /\ access_token = NoToken
    /\ token_expires = 0
    /\ folder_name = <<>>
    /\ search_variations = <<>>
    /\ vi = 0
    /\ response = None
    /\ games = <<>>
    /\ page = 0
    /\ game = None
    /\ game_info = None
    /\ queries = <<>>
    /\ failed_search = FALSE
    /\ auth_requested = FALSE
    /\ prompted = FALSE
    /\ choice = NoChoice
    /\ outcome = "none"
    /\ history = [id \in FolderIds |-> "none"]

\* ------------------------------------------------------------------------
\* rename_games.main
\* ------------------------------------------------------------------------

\* What the environment may hold for main's four variables
Environments ==
    [read : {TRUE},
     client_id : {Unset, "", "id"},
     client_secret : {Unset, "", "secret"},
     dry_run : {"false", "true"}]

\* all([client_id, client_secret])
HasCredentials(e) ==
    /\ e.client_id \notin {Unset, ""}
    /\ e.client_secret \notin {Unset, ""}

\* Lines 6-13: a credential is missing; main prints and returns.
MainMissingCredentials ==
    /\ pc = "start"
    /\ \E e \in Environments :
          /\ ~HasCredentials(e)
          /\ env' = e
    /\ pc' = "exit"
    /\ UNCHANGED <<crash, root, listing, idx, runs, stats, now,
                   client, locals, outcome, history>>

\* Lines 6-17: both credentials are set; IGDBClient is constructed, and
\* GameFolderRenamer is called with three arguments, one more than its
\* __init__ (game_renamer.py line 180) takes: a TypeError ends main.
MainConstructs ==
    /\ pc = "start"
    /\ \E e \in Environments :
          /\ HasCredentials(e)
          /\ env' = e
    /\ pc' = "crashed"
    /\ crash' = "TypeError"
    /\ UNCHANGED <<root, listing, idx, runs, stats, now, client,
                   locals, outcome, history>>

\* A caller that constructs IGDBClient(client_id, client_secret) and
\* GameFolderRenamer(igdb_client, base_path) as their __init__ are declared.
Construct ==
    /\ pc = "start"
    /\ pc' = "idle"
    /\ UNCHANGED <<env, crash, root, listing, idx, runs, stats, now,
                   client, locals, outcome, history>>

\* ------------------------------------------------------------------------
\* GameFolderRenamer.process_folders
\* ------------------------------------------------------------------------

\* os.path.isdir(os.path.join(base_path, name))
IsDir(name) == \E i \in 1..Len(root) : root[i].name = name /\ root[i].isdir

\* Nothing is known of the folder at hand, but for the input read last
ResetLocals(name) ==
    /\ folder_name' = name
    /\ search_variations' = <<>>
    /\ vi' = 0
    /\ response' = None
    /\ page' = 0
    /\ queries' = <<>>
    /\ failed_search' = FALSE
    /\ games' = <<>>
    /\ game' = None
    /\ game_info' = None
    /\ auth_requested' = FALSE
    /\ prompted' = FALSE

\* _process_single_folder returns and the for loop of line 193 moves to
\* the next entry.
Return ==
    /\ idx' = idx + 1
    /\ pc' = "iter"
    /\ ResetLocals(<<>>)
    /\ choice' = NoChoice

\* Lines 192-193: the counters are reset and the root is listed.
StartRun ==
    /\ pc \in {"idle", "done"}
    /\ runs < MaxRuns
    /\ runs' = runs + 1
    /\ stats' = ZeroStats
    /\ listing' = [i \in 1..Len(root) |-> root[i].name]
    /\ idx' = 1
    /\ pc' = "iter"
    /\ outcome' = "none"
    /\ UNCHANGED <<env, crash, root, now, client, locals, history>>

\* IgnoreEntry with stats['total'] += 1 above the isdir test
IgnoreEntry_Counted ==
    /\ pc = "iter"
    /\ idx <= Len(listing)
    /\ ~IsDir(listing[idx])
    /\ idx' = idx + 1
    /\ stats' = [stats EXCEPT !.total = @ + 1]
    /\ UNCHANGED <<pc, env, crash, root, listing, runs, now, client, locals,
                   outcome, history>>

\* Line 194: an entry that is not a directory is passed over.
IgnoreEntry ==
    /\ pc = "iter"
    /\ idx <= Len(listing)
    /\ ~IsDir(listing[idx])
    /\ idx' = idx + 1
    /\ UNCHANGED <<pc, env, crash, root, listing, runs, stats, now, client,
                   locals, outcome, history>>

\* Lines 195-196 and 208-211: a directory whose name is already in the
\* canonical form is counted and skipped.
SkipCanonical ==
    /\ pc = "iter"
    /\ idx <= Len(listing)
    /\ IsDir(listing[idx])
    /\ IsCanonical(listing[idx])
    /\ stats' = [stats EXCEPT !.total = @ + 1, !.skipped = @ + 1]
    /\ outcome' = "already_named"
    /\ Return
    /\ UNCHANGED <<env, crash, root, listing, runs, now, client, history>>

\* Lines 195-196, 208 and 214: any other directory is counted and handed
\* to search_game.
BeginSearch ==
    /\ pc = "iter"
    /\ idx <= Len(listing)
    /\ IsDir(listing[idx])
    /\ ~IsCanonical(listing[idx])
    /\ stats' = [stats EXCEPT !.total = @ + 1]
    /\ ResetLocals(listing[idx])
    /\ choice' = NoChoice
    /\ outcome' = "none"
    /\ pc' = "ensure_auth"
    /\ UNCHANGED <<env, crash, root, listing, idx, runs, now, client, history>>

\* Lines 198-203: the loop is over and the counters are printed.
Finish ==
    /\ pc = "iter"
    /\ idx > Len(listing)
    /\ pc' = "done"
    /\ UNCHANGED <<env, crash, root, listing, idx, runs, stats, now, client,
                   locals, outcome, history>>

\* Time passes. The program reads the clock only in ensure_authenticated
\* and authenticate, at the start of a folder's search, so the time that
\* passes is counted between folders and between runs.
Tick ==
    /\ pc \in {"idle", "iter", "done"}
    /\ now < MaxTime
    /\ now' = now + 1
    /\ UNCHANGED <<pc, env, crash, root, listing, idx, runs, stats, client,
                   locals, outcome, history>>

\* ------------------------------------------------------------------------
\* IGDBClient.ensure_authenticated and authenticate
\* ------------------------------------------------------------------------

\* The validity a token endpoint may grant (expires_in)
ExpiresIn == {1, 2}

\* NeedsToken with > for >=
NeedsToken_Late == access_token \in {NoToken, ""} \/ now > token_expires

\* Line 34: not self.access_token or time.time() >= self.token_expires
NeedsToken == access_token \in {NoToken, ""} \/ now >= token_expires

\* Lines 42-73 and 81: the variants are built and the loop starts.
EnterSearchLoop ==
    /\ search_variations' = SearchVariations(folder_name)
    /\ vi' = 1
    /\ pc' = "search"

\* Lines 34 and 39: the token held is still valid, nothing is requested.
TokenStillValid ==
    /\ pc = "ensure_auth"
    /\ ~NeedsToken
    /\ EnterSearchLoop
    /\ UNCHANGED <<env, crash, root, listing, idx, runs, stats, now, client,
                   folder_name, response, page, queries, failed_search,
                   resolution, auth_requested, outcome, history>>

\* Lines 24-28 and 34-35: a token is requested and granted.
AuthenticateOk ==
    /\ pc = "ensure_auth"
    /\ NeedsToken
    /\ auth_requested' = TRUE
    /\ access_token' = "bearer"
    /\ \E expires_in \in ExpiresIn : token_expires' = now + expires_in
    /\ EnterSearchLoop
    /\ UNCHANGED <<env, crash, root, listing, idx, runs, stats, now,
                   folder_name, response, page, queries, failed_search,
                   resolution, outcome, history>>

\* AuthenticateRejected with the failure swallowed: search_game goes on
\* with the token it had.
AuthenticateRejected_Swallowed ==
    /\ pc = "ensure_auth"
    /\ NeedsToken
    /\ auth_requested' = TRUE
    /\ EnterSearchLoop
    /\ UNCHANGED <<env, crash, root, listing, idx, runs, stats, now, client,
                   folder_name, response, page, queries, failed_search,
                   resolution, outcome, history>>

\* Lines 24-30 and 34-35: a token is requested and refused; the exception
\* is caught nowhere and ends the program.
AuthenticateRejected ==
    /\ pc = "ensure_auth"
    /\ NeedsToken
    /\ auth_requested' = TRUE
    /\ pc' = "crashed"
    /\ crash' = "AuthError"
    /\ UNCHANGED <<env, root, listing, idx, runs, stats, now, client,
                   folder_name, loopvars, resolution, outcome, history>>

\* ------------------------------------------------------------------------
\* IGDBClient.search_game: the search loop (lines 81-110)
\* ------------------------------------------------------------------------

\* Lines 89-93: the query of this turn of the loop is sent and answered.
Search(resp) ==
    /\ queries' = Append(queries, search_variations[vi])
    /\ response' = resp
    /\ failed_search' = (failed_search \/ resp.status_code # 200)

\* Lines 95-98: the response ends the loop
Breaks(resp) == resp.status_code = 200 /\ resp.json # <<>>

\* SearchMisses without the break of line 98: the loop goes on whatever
\* the response holds.
SearchMisses_NoBreak ==
    /\ pc = "search"
    /\ vi < Len(search_variations)
    /\ \E resp \in Responses : Search(resp)
    /\ vi' = vi + 1
    /\ UNCHANGED <<pc, env, crash, root, listing, idx, runs, stats, now,
                   client, folder_name, search_variations, page, resolution,
                   auth_requested, outcome, history>>

\* Lines 81-98: the response is a failure or holds no record, and there
\* is another variant; the loop goes on with it.
SearchMisses ==
    /\ pc = "search"
    /\ vi < Len(search_variations)
    /\ \E resp \in Responses :
          /\ ~Breaks(resp)
          /\ Search(resp)
    /\ vi' = vi + 1
    /\ UNCHANGED <<pc, env, crash, root, listing, idx, runs, stats, now,
                   client, folder_name, search_variations, page, resolution,
                   auth_requested, outcome, history>>

\* SearchExhausted without the count of line 233
SearchExhausted_Uncounted ==
    /\ pc = "search"
    /\ vi = Len(search_variations)
    /\ \E resp \in Responses : ~Breaks(resp)
    /\ outcome' = "no_match"
    /\ Return
    /\ UNCHANGED <<env, crash, root, listing, runs, stats, now, client, history>>

\* Lines 81-100 and 231-233: the response to the last variant is a
\* failure or holds no record; search_game returns None and the folder is
\* counted as an error.
SearchExhausted ==
    /\ pc = "search"
    /\ vi = Len(search_variations)
    /\ \E resp \in Responses : ~Breaks(resp)
    /\ stats' = [stats EXCEPT !.errors = @ + 1]
    /\ outcome' = "no_match"
    /\ Return
    /\ UNCHANGED <<env, crash, root, listing, runs, now, client, history>>

\* Lines 107-110: one record with a release date; it is returned.
SearchFindsOne ==
    /\ pc = "search"
    /\ \E resp \in Responses :
          /\ Breaks(resp)
          /\ Len(resp.json) = 1
          /\ "first_release_date" \in DOMAIN resp.json[1]
          /\ Search(resp)
          /\ games' = resp.json
          /\ game' = resp.json[1]
          /\ game_info' =
                 [name |-> resp.json[1].name,
                  release_date |->
                      KnownYear(YearOf(resp.json[1].first_release_date))]
    /\ pc' = "rename"
    /\ UNCHANGED <<env, crash, root, listing, idx, runs, stats, now, client,
                   folder_name, search_variations, vi, page, auth_requested,
                   prompted, choice, outcome, history>>

\* Lines 107-109: one record without a release date;
\* game["first_release_date"] raises KeyError, which is caught nowhere.
SearchFindsOneUndated ==
    /\ pc = "search"
    /\ \E resp \in Responses :
          /\ Breaks(resp)
          /\ Len(resp.json) = 1
          /\ "first_release_date" \notin DOMAIN resp.json[1]
          /\ Search(resp)
          /\ games' = resp.json
          /\ game' = resp.json[1]
    /\ pc' = "crashed"
    /\ crash' = "KeyError"
    /\ UNCHANGED <<env, root, listing, idx, runs, stats, now, client,
                   folder_name, search_variations, vi, page, game_info,
                   auth_requested, prompted, choice, outcome, history>>

\* Lines 112-114: several records; the first page is shown.
SearchFindsSeveral ==
    /\ pc = "search"
    /\ \E resp \in Responses :
          /\ Breaks(resp)
          /\ Len(resp.json) > 1
          /\ Search(resp)
          /\ games' = resp.json
    /\ page' = 0
    /\ pc' = "prompt"
    /\ UNCHANGED <<env, crash, root, listing, idx, runs, stats, now, client,
                   folder_name, search_variations, vi, game, game_info,
                   auth_requested, prompted, choice, outcome, history>>

\* ------------------------------------------------------------------------
\* IGDBClient.search_game: the choice among several records (lines 112-153)
\* ------------------------------------------------------------------------

page_size == 5

\* Lines 118-119
start_idx == page * page_size

end_idx ==
    IF start_idx + page_size < Len(games) THEN start_idx + page_size
    ELSE Len(games)

\* Line 121: the numbers of the records the page shows
Displayed == (start_idx + 1)..end_idx

LowerSeq ==
    <<"a", "b", "c", "d", "e", "f", "g", "h", "i", "j", "k", "l", "m",
      "n", "o", "p", "q", "r", "s", "t", "u", "v", "w", "x", "y", "z">>

UpperSeq ==
    <<"A", "B", "C", "D", "E", "F", "G", "H", "I", "J", "K", "L", "M",
      "N", "O", "P", "Q", "R", "S", "T", "U", "V", "W", "X", "Y", "Z">>

\* str.lower()
Lower(s) ==
    [i \in 1..Len(s) |->
        IF s[i] \in UpperCase
        THEN LowerSeq[CHOOSE k \in 1..26 : UpperSeq[k] = s[i]]
        ELSE s[i]]

\* str.strip()
RECURSIVE StripLeft(_)
StripLeft(s) ==
    IF s # <<>> /\ IsSpace(Head(s)) THEN StripLeft(Tail(s)) ELSE s

RECURSIVE StripRight(_)
StripRight(s) ==
    IF s # <<>> /\ IsSpace(s[Len(s)]) THEN StripRight(Take(s, Len(s) - 1))
    ELSE s

\* The number a sequence of digits writes
RECURSIVE DigitsValue(_)
DigitsValue(s) ==
    IF s = <<>> THEN 0
    ELSE 10 * DigitsValue(Take(s, Len(s) - 1))
         + (CHOOSE d \in 0..9 : DecimalString(d) = <<s[Len(s)]>>)

\* int(choice): whitespace around, a sign, digits; anything else raises
\* ValueError (ok is FALSE).
ParseInt(text) ==
    LET t == StripRight(StripLeft(text))
        signed == t # <<>> /\ Head(t) \in {"-", "+"}
        body == IF signed THEN Tail(t) ELSE t
    IN  IF body # <<>> /\ \A i \in 1..Len(body) : IsDigit(body[i])
        THEN [ok |-> TRUE,
              value |-> IF signed /\ Head(t) = "-" THEN 0 - DigitsValue(body)
                        ELSE DigitsValue(body)]
        ELSE [ok |-> FALSE, value |-> 0]

\* Line 145: the year of a chosen record, "TBA" when game.get(...) is
\* None or 0
ChosenYear(g) ==
    IF "first_release_date" \in DOMAIN g /\ g.first_release_date # 0
    THEN KnownYear(YearOf(g.first_release_date))
    ELSE TBA

\* InputSkip without the count of line 233
InputSkip_Uncounted ==
    /\ pc = "prompt"
    /\ \E raw \in Inputs :
          /\ Lower(raw) = <<"s">>
          /\ choice' = Lower(raw)
    /\ outcome' = "operator_skip"
    /\ idx' = idx + 1
    /\ pc' = "iter"
    /\ ResetLocals(<<>>)
    /\ UNCHANGED <<env, crash, root, listing, runs, stats, now, client,
                   history>>

\* Lines 133-134 and 231-233: 's' leaves the prompt with None, and the
\* folder is counted as an error.
InputSkip ==
    /\ pc = "prompt"
    /\ \E raw \in Inputs :
          /\ Lower(raw) = <<"s">>
          /\ choice' = Lower(raw)
    /\ stats' = [stats EXCEPT !.errors = @ + 1]
    /\ outcome' = "operator_skip"
    /\ idx' = idx + 1
    /\ pc' = "iter"
    /\ ResetLocals(<<>>)
    /\ UNCHANGED <<env, crash, root, listing, runs, now, client, history>>

\* InputMore without the test of line 136: the page advances even when
\* the list has no further record.
InputMore_PastEnd ==
    /\ pc = "prompt"
    /\ \E raw \in Inputs :
          /\ Lower(raw) = <<"m">>
          /\ choice' = Lower(raw)
    /\ prompted' = TRUE
    /\ page' = page + 1
    /\ UNCHANGED <<pc, env, crash, root, listing, idx, runs, stats, now,
                   client, folder_name, search_variations, vi, response,
                   queries, failed_search, games, game, game_info,
                   auth_requested, outcome, history>>

\* Lines 135-141: 'm' shows the next page when there is one.
InputMore ==
    /\ pc = "prompt"
    /\ \E raw \in Inputs :
          /\ Lower(raw) = <<"m">>
          /\ choice' = Lower(raw)
    /\ prompted' = TRUE
    /\ page' = IF end_idx < Len(games) THEN page + 1 ELSE page
    /\ UNCHANGED <<pc, env, crash, root, listing, idx, runs, stats, now,
                   client, folder_name, search_variations, vi, response,
                   queries, failed_search, games, game, game_info,
                   auth_requested, outcome, history>>

\* InputNumber with the number counted from the top of the page shown
\* (games[start_idx + choice_idx]) instead of the top of the list
InputNumber_PageRelative ==
    /\ pc = "prompt"
    /\ \E raw \in Inputs :
          LET lowered == Lower(raw)
              choice_idx == ParseInt(lowered).value - 1
          IN  /\ lowered \notin {<<"s">>, <<"m">>}
              /\ ParseInt(lowered).ok
              /\ 0 <= choice_idx /\ start_idx + choice_idx < Len(games)
              /\ choice' = lowered
              /\ game' = games[start_idx + choice_idx + 1]
              /\ game_info' =
                     [name |-> games[start_idx + choice_idx + 1].name,
                      release_date |->
                          ChosenYear(games[start_idx + choice_idx + 1])]
    /\ prompted' = TRUE
    /\ pc' = "rename"
    /\ UNCHANGED <<env, crash, root, listing, idx, runs, stats, now, client,
                   folder_name, loopvars, games, auth_requested, outcome,
                   history>>

\* Lines 142-146: a number that the list has; that record is returned.
InputNumber ==
    /\ pc = "prompt"
    /\ \E raw \in Inputs :
          LET lowered == Lower(raw)
              choice_idx == ParseInt(lowered).value - 1
          IN  /\ lowered \notin {<<"s">>, <<"m">>}
              /\ ParseInt(lowered).ok
              /\ 0 <= choice_idx /\ choice_idx < Len(games)
              /\ choice' = lowered
              /\ game' = games[choice_idx + 1]
              /\ game_info' =
                     [name |-> games[choice_idx + 1].name,
                      release_date |-> ChosenYear(games[choice_idx + 1])]
    /\ prompted' = TRUE
    /\ pc' = "rename"
    /\ UNCHANGED <<env, crash, root, listing, idx, runs, stats, now, client,
                   folder_name, loopvars, games, auth_requested, outcome,
                   history>>

\* InputInvalid with a return for the continue: a wrong input ends the
\* resolution as 's' does.
InputInvalid_Skips ==
    /\ pc = "prompt"
    /\ \E raw \in Inputs :
          LET lowered == Lower(raw)
              choice_idx == ParseInt(lowered).value - 1
          IN  /\ lowered \notin {<<"s">>, <<"m">>}
              /\ \/ ~ParseInt(lowered).ok
                 \/ ~(0 <= choice_idx /\ choice_idx < Len(games))
              /\ choice' = lowered
    /\ stats' = [stats EXCEPT !.errors = @ + 1]
    /\ outcome' = "operator_skip"
    /\ idx' = idx + 1
    /\ pc' = "iter"
    /\ ResetLocals(<<>>)
    /\ UNCHANGED <<env, crash, root, listing, runs, now, client, history>>

\* Lines 142-143 and 147-150: a number the list does not have, or an
\* input int() raises ValueError on; the prompt is repeated.
InputInvalid ==
    /\ pc = "prompt"
    /\ \E raw \in Inputs :
          LET lowered == Lower(raw)
              choice_idx == ParseInt(lowered).value - 1
          IN  /\ lowered \notin {<<"s">>, <<"m">>}
              /\ \/ ~ParseInt(lowered).ok
                 \/ ~(0 <= choice_idx /\ choice_idx < Len(games))
              /\ choice' = lowered
    /\ prompted' = TRUE
    /\ UNCHANGED <<pc, env, crash, root, listing, idx, runs, stats, now,
                   client, folder_name, loopvars, games, game, game_info,
                   auth_requested, outcome, history>>

\* ------------------------------------------------------------------------
\* GameFolderRenamer._process_single_folder: the rename (lines 216-230)
\* ------------------------------------------------------------------------

\* Line 219
new_name == NewName(game_info.name, game_info.release_date)

HasEntry(name) == \E i \in 1..Len(root) : root[i].name = name

EntryOf(name) == root[CHOOSE i \in 1..Len(root) : root[i].name = name]

\* Whether os.rename(old_path, new_path) can succeed: the target is free,
\* is the folder itself, or is an empty directory, which on POSIX systems
\* the folder then silently replaces (on Windows the call raises, which
\* RenameFails covers).
RenameCanSucceed ==
    \/ ~HasEntry(new_name)
    \/ new_name = folder_name
    \/ /\ HasEntry(new_name)
       /\ EntryOf(new_name).isdir
       /\ EntryOf(new_name).empty

\* The root after os.rename succeeded
RootAfterRename ==
    IF new_name = folder_name THEN root
    ELSE LET kept == SelectSeq(root, LAMBDA e : e.name # new_name)
         IN  [k \in 1..Len(kept) |->
                 IF kept[k].name = folder_name
                 THEN [kept[k] EXCEPT !.name = new_name]
                 ELSE kept[k]]

\* Lines 225-227: os.rename succeeds.
RenameOk ==
    /\ pc = "rename"
    /\ RenameCanSucceed
    /\ root' = RootAfterRename
    /\ stats' = [stats EXCEPT !.renamed = @ + 1]
    /\ outcome' = "renamed"
    /\ history' =
           [history EXCEPT ![EntryOf(folder_name).id] =
               IF game_info.release_date.known THEN "year" ELSE "bare"]
    /\ Return
    /\ UNCHANGED <<env, crash, listing, runs, now, client>>

\* RenameFails with stats['renamed'] += 1 above os.rename
RenameFails_CountedRenamed ==
    /\ pc = "rename"
    /\ stats' = [stats EXCEPT !.renamed = @ + 1, !.errors = @ + 1]
    /\ outcome' = "rename_failed"
    /\ Return
    /\ UNCHANGED <<env, crash, root, listing, runs, now, client, history>>

\* Lines 225 and 228-230: os.rename raises OSError (the target exists,
\* permission is denied, ...).
RenameFails ==
    /\ pc = "rename"
    /\ stats' = [stats EXCEPT !.errors = @ + 1]
    /\ outcome' = "rename_failed"
    /\ Return
    /\ UNCHANGED <<env, crash, root, listing, runs, now, client, history>>

\* ------------------------------------------------------------------------
\* The program
\* ------------------------------------------------------------------------

Next ==
    \/ MainMissingCredentials
    \/ MainConstructs
    \/ Construct
    \/ StartRun
    \/ IgnoreEntry
    \/ SkipCanonical
    \/ BeginSearch
    \/ Finish
    \/ Tick
    \/ TokenStillValid
    \/ AuthenticateOk
    \/ AuthenticateRejected
    \/ SearchMisses
    \/ SearchExhausted
    \/ SearchFindsOne
    \/ SearchFindsOneUndated
    \/ SearchFindsSeveral
    \/ InputSkip
    \/ InputMore
    \/ InputNumber
    \/ InputInvalid
    \/ RenameOk
    \/ RenameFails

Spec == Init /\ [][Next]_vars

\* ------------------------------------------------------------------------
\* Properties
\* ------------------------------------------------------------------------

\* The pattern .+ \(\d{4}\)$ as a split of the name: one or more
\* characters, then " (", four digits and ")" at the end.
CanonicalPattern(s) ==
    \E k \in 1..Len(s) :
        /\ Len(s) = k + 7
        /\ s[k + 1] = " "
        /\ s[k + 2] = "("
        /\ \A i \in (k + 3)..(k + 6) : s[i] \in Digits
        /\ s[k + 7] = ")"

\* The for loop of line 193 takes up the entry at idx in this step.
TakesUpEntry ==
    /\ pc = "iter"
    /\ idx <= Len(listing)
    /\ stats'.total = stats.total + 1

\* C1: processing a folder whose name matches .+ \(\d{4}\)$ asks for no
\* token, sends no search, renames nothing, adds one to skipped and leaves
\* renamed and errors as they were.
C1_CanonicalFolderSkipped ==
    [][(TakesUpEntry /\ CanonicalPattern(listing[idx]))
          => /\ stats'.skipped = stats.skipped + 1
             /\ stats'.renamed = stats.renamed
             /\ stats'.errors = stats.errors
             /\ root' = root
             /\ client' = client
             /\ ~auth_requested'
             /\ queries' = <<>>
             /\ pc' = "iter"
             /\ idx' = idx + 1]_vars

\* A canonical folder has just been skipped.
C1_Witness ==
    /\ outcome = "already_named"
    /\ stats.skipped = 1
    /\ \E i \in 1..Len(root) : root[i].name = DoomCanonical

\* C2: after a full run of process_folders,
\* total = renamed + skipped + errors.
C2_CountersAddUp ==
    pc = "done"
        => stats.total = stats.renamed + stats.skipped + stats.errors

\* A run over a file and two folders has ended with one folder skipped
\* and the other renamed.
C2_Witness ==
    /\ pc = "done"
    /\ Len(listing) = 3
    /\ stats.total = 2
    /\ stats.skipped = 1
    /\ stats.renamed = 1

PortalTarget ==
    <<"P", "o", "r", "t", "a", "l", " ", "2", " ", "(", "2", "0", "1", "1",
      ")">>

\* This step sends a search, and the response holds exactly one record,
\* which has a release date.
FindsOneDated ==
    /\ pc = "search"
    /\ queries' = Append(queries, search_variations[vi])
    /\ response'.status_code = 200
    /\ Len(response'.json) = 1
    /\ "first_release_date" \in DOMAIN response'.json[1]

C4_NoMatchCountedAsError ==
    [][(/\ pc = "search"
        /\ vi = Len(search_variations)
        /\ games' = <<>>)
          => /\ game_info' = None
             /\ outcome' = "no_match"
             /\ root' = root
             /\ stats' = [stats EXCEPT !.errors = @ + 1]
             /\ crash' = "none"
             /\ pc' = "iter"
             /\ idx' = idx + 1]_vars

\* The first of two folders ended without a match, and the second is next.
C4_Witness ==
    /\ outcome = "no_match"
    /\ pc = "iter"
    /\ idx = 2
    /\ Len(listing) = 2
    /\ stats.errors = 1
    /\ \E i \in 1..Len(root) : root[i].name = HaloDefinitive

\* C5: the queries sent are the variants in their order; while the loop
\* runs, every response so far held no record; the list search_game works
\* on is the response to the last query sent, which is the first to hold
\* a record.
C5_FirstMatchingVariantOnly ==
    /\ pc = "search"
          => /\ vi \in 1..Len(search_variations)
             /\ queries = Take(search_variations, vi - 1)
             /\ vi > 1 => ~(response.status_code = 200 /\ response.json # <<>>)
             /\ games = <<>>
    /\ pc \in {"prompt", "rename"} \/ crash = "KeyError"
          => /\ queries = Take(search_variations, vi)
             /\ response.status_code = 200
             /\ response.json # <<>>
             /\ games = response.json

\* The third variant was the first to yield records.
C5_Witness ==
    /\ pc = "prompt"
    /\ vi = 3
    /\ Len(queries) = 3
    /\ queries[1] # queries[2]
    /\ queries[2] # queries[3]

\* C6: a record picked without a release date, as the only record or by
\* the operator, gives the year "TBA" and the bare name as the new name.
C6_UndatedGivesBareName ==
    (game # None /\ "first_release_date" \notin DOMAIN game)
        => /\ pc = "rename"
           /\ game_info = [name |-> game.name, release_date |-> TBA]
           /\ new_name = game.name

\* C7: where authentication succeeds, a failed search does not end the
\* run: the program goes on after it.
C7_FailedSearchNeverAborts ==
    (failed_search /\ crash # "AuthError") => pc # "crashed"

\* This step is the rename of the folder at hand.
Renames == pc = "rename" /\ pc' # "rename"

\* C8: a rename that fails adds one to errors, leaves renamed and the root
\* as they were, and the loop goes on; a rename that succeeds adds one to
\* renamed and leaves errors as it was.
C8_RenameOutcomeCounted ==
    [][Renames
          => /\ outcome' \in {"rename_failed", "renamed"}
             /\ pc' = "iter"
             /\ idx' = idx + 1
             /\ crash' = "none"
             /\ outcome' = "rename_failed"
                   => /\ stats' = [stats EXCEPT !.errors = @ + 1]
                      /\ root' = root
                      /\ \E i \in 1..Len(root') :
                            root'[i].name = folder_name /\ root'[i].isdir
             /\ outcome' = "renamed"
                   => /\ stats' = [stats EXCEPT !.renamed = @ + 1]
                      /\ \E i \in 1..Len(root') :
                            /\ root'[i].name = new_name
                            /\ root'[i].id = EntryOf(folder_name).id]_vars

\* The rename of a folder has failed in the run after the one that
\* renamed it to a bare name.
C8_Witness ==
    /\ outcome = "rename_failed"
    /\ runs = 2
    /\ stats.renamed = 0
    /\ stats.errors = 1
    /\ \E id \in FolderIds : history[id] = "bare"

\* C9: ensure_authenticated asks for a token exactly when none is held or
\* the clock is at or past the expiry; a token is asked for nowhere else;
\* and a search is sent only with a token held.
C9_AuthenticatesOnlyWhenNeeded ==
    /\ [](queries # <<>> => access_token # NoToken)
    /\ [][/\ pc = "ensure_auth"
             => (auth_requested'
                    <=> (access_token = NoToken \/ now >= token_expires))
          /\ pc # "ensure_auth"
             => /\ auth_requested' => auth_requested
                /\ client' = client]_vars

\* A folder is searched with the token an earlier folder got.
C9_Witness ==
    /\ pc = "search"
    /\ ~auth_requested
    /\ access_token # NoToken
    /\ now < token_expires
    /\ stats.total = 2

\* In this step a token is asked for and not granted.
TokenRefused ==
    /\ pc = "ensure_auth"
    /\ auth_requested'
    /\ client' = client

\* C10: when a token is refused the run ends there: the root and the
\* counters stay as they are, no search is sent, and nothing happens after.
C10_AuthFailureAborts ==
    [][/\ crash # "AuthError"
       /\ TokenRefused
             => /\ pc' = "crashed"
                /\ crash' = "AuthError"
                /\ root' = root
                /\ stats' = stats
                /\ queries' = <<>>]_vars

\* The token an earlier run renamed a folder with has run out, and the
\* request for another is refused at the second folder of this run.
C10_Witness ==
    /\ crash = "AuthError"
    /\ runs = 2
    /\ stats.total = 2
    /\ \E id \in FolderIds : history[id] = "bare"
    /\ now >= token_expires
    /\ access_token # NoToken

\* What int() makes of the input a step read, when it is a number
Typed(text) == ParseInt(text).value

IsNumber(text) == ParseInt(text).ok

\* C11: at the prompt, 'm' advances the page by exactly one when the list
\* has records beyond the page shown and otherwise leaves the page as it
\* is; an input that is no number, or a number outside 1..len(games),
\* leaves the page, the list, the counters and the folders as they are and
\* the prompt is repeated; the prompt is left only by 's' or by a number
\* in 1..len(games).
C11_PromptInputs ==
    [][pc = "prompt"
          => /\ choice' = <<"m">>
                   => /\ pc' = "prompt"
                      /\ games' = games
                      /\ page' = IF 5 * (page + 1) < Len(games)
                                 THEN page + 1 ELSE page
             /\ (/\ choice' \notin {<<"m">>, <<"s">>}
                 /\ \/ ~IsNumber(choice')
                    \/ Typed(choice') < 1
                    \/ Typed(choice') > Len(games))
                   => /\ pc' = "prompt"
                      /\ page' = page
                      /\ games' = games
                      /\ game_info' = None
                      /\ stats' = stats
                      /\ root' = root
             /\ pc' # "prompt"
                   => \/ choice' = <<"s">>
                      \/ /\ pc' = "rename"
                         /\ IsNumber(choice')
                         /\ Typed(choice') \in 1..Len(games)]_vars

\* On the second page of a list of six, a wrong input has been answered
\* with the same page.
C11_Witness ==
    /\ pc = "prompt"
    /\ Len(games) = 6
    /\ page = 1
    /\ choice = <<"x">>

\* The step in which the operator answers 's'
AnswersSkip == pc = "prompt" /\ choice' = <<"s">>

\* C12: when the operator answers 's', on whatever page and after whatever
\* earlier inputs, search_game returns None: the folder is not renamed,
\* errors goes up by exactly one (renamed and skipped do not move) and the
\* run goes on with the next entry.
C12_SkipCountedAsError ==
    [][AnswersSkip
          => /\ outcome' = "operator_skip"
             /\ game_info' = None
             /\ root' = root
             /\ stats' = [stats EXCEPT !.errors = @ + 1]
             /\ pc' = "iter"
             /\ idx' = idx + 1
             /\ crash' = "none"]_vars

\* The operator has skipped a folder: it has its name and counts as an
\* error.
C12_Witness ==
    /\ choice = <<"s">>
    /\ outcome = "operator_skip"
    /\ stats.errors = 1
    /\ stats.renamed = 0
    /\ idx = 2
    /\ root[1].name = HaloDefinitive

\* C16: a number n typed at the prompt picks games[n] of the whole list
\* for every 1 <= n <= len(games), whatever page is shown; it is turned
\* down only when n < 1 or n > len(games).
C16_NumberPicksFromWholeList ==
    [][(pc = "prompt" /\ IsNumber(choice'))
          => IF Typed(choice') \in 1..Len(games)
             THEN /\ pc' = "rename"
                  /\ game' = games[Typed(choice')]
                  /\ game_info'.name = games[Typed(choice')].name
                  /\ page' = page
             ELSE /\ pc' = "prompt"
                  /\ game' = None]_vars

\* Record 7 of 11 has been picked with the first page (records 1..5) on
\* show.
C16_Witness ==
    /\ pc = "rename"
    /\ Len(games) = 11
    /\ page = 0
    /\ choice = <<"7">>
    /\ game = games[7]

\* C17: at the prompt over n records, the page p is such that 0 <= p and
\* 5 * p < n; the page shows the records 5p+1 .. min(5p+5, n), at least
\* one, of the list as the catalog sent it; p never goes down, and 'm' is
\* taken at most ceil(n / 5) - 1 times (p counts them).
C17_PageWithinList ==
    /\ [](pc = "prompt"
            => /\ 0 <= page
               /\ 5 * page < Len(games)
               /\ Displayed # {}
               /\ Displayed =
                      {i \in 1..Len(games) : 5 * page < i /\ i <= 5 * page + 5}
               /\ games = response.json
               /\ page <= ((Len(games) + 4) \div 5) - 1)
    /\ [][(pc = "prompt" /\ pc' = "prompt")
             => /\ page' \in {page, page + 1}
                /\ page' = page + 1 => choice' = <<"m">>]_vars

\* The third and last page of a list of eleven is on show.
C17_Witness ==
    /\ pc = "prompt"
    /\ Len(games) = 11
    /\ page = 2
    /\ Displayed = {11}

\* main has read both credentials and DRY_RUN=true from the environment.
DryRunAsked ==
    /\ env.read
    /\ HasCredentials(env)
    /\ env.dry_run = "true"

\* C15: with both credentials set and DRY_RUN true, a run started from
\* main goes through the folders (it is not ended by an exception) and
\* applies no rename.
C15_DryRunPreviews ==
    DryRunAsked
        => /\ pc # "crashed"
           /\ outcome # "renamed"
           /\ \A id \in FolderIds : history[id] = "none"

\* The folder the loop of line 193 takes up in this step was renamed
\* before, to a target with a year ("year") or to a bare name ("bare").
TakesUpRenamed(how) ==
    /\ TakesUpEntry
    /\ history[EntryOf(listing[idx]).id] = how

\* C18: a folder renamed to a target with a known release year has a name
\* of the form .+ \(\d{4}\)$, and when a run takes it up again it is
\* skipped with no token asked for, no search sent and no rename; a folder
\* renamed to a bare name has a name not of that form, and a run that
\* takes it up again hands it to search_game.
C18_RenamedFolderSkippedNextRun ==
    [][/\ (pc = "rename" /\ outcome' = "renamed")
             => /\ \E i \in 1..Len(root') : root'[i].name = new_name
                /\ game_info.release_date.known
                       <=> CanonicalPattern(new_name)
                /\ history'[EntryOf(folder_name).id]
                       = IF game_info.release_date.known THEN "year"
                         ELSE "bare"
       /\ TakesUpRenamed("year")
             => /\ outcome' = "already_named"
                /\ stats'.skipped = stats.skipped + 1
                /\ root' = root
                /\ history' = history
                /\ ~auth_requested'
                /\ queries' = <<>>
                /\ pc' = "iter"
       /\ TakesUpRenamed("bare")
             => /\ pc' = "ensure_auth"
                /\ folder_name' = listing[idx]
                /\ stats'.skipped = stats.skipped]_vars

\* The second run over a root has skipped both folders: the one that was
\* canonical from the start and the one the first run renamed to
\* "Portal 2 (2011)".
C18_Witness ==
    /\ runs = 2
    /\ pc = "done"
    /\ history[2] = "year"
    /\ \E i \in 1..Len(root) : root[i].name = PortalTarget /\ root[i].id = 2
    /\ stats = [total |-> 2, renamed |-> 0, skipped |-> 2, errors |-> 0]

\* The directories under the root
Directories(entries) == {i \in 1..Len(entries) : entries[i].isdir}

\* C19: when the target of a rename is the name of another entry under
\* the root, the rename is not applied: the root stays as it is and the
\* folder is counted in errors; and no step changes the number of
\* directories under the root.
C19_NoMergeNoOverwrite ==
    [][/\ (/\ pc = "rename"
           /\ new_name # folder_name
           /\ HasEntry(new_name))
             => /\ root' = root
                /\ stats' = [stats EXCEPT !.errors = @ + 1]
       /\ Cardinality(Directories(root')) = Cardinality(Directories(root))]_vars

\* ------------------------------------------------------------------------
\* The name normalizer on its own: _clean_folder_name and the variants of
\* search_game applied to folder names, and applied again to their output
\* ------------------------------------------------------------------------

SpiderManRune ==
    <<"S", "p", "i", "d", "e", "r", "-", "M", "a", "n", "-", "R", "U", "N",
      "E">>

\* What folder names are put together from
NameParts ==
    {<<"H", "a", "l", "o">>, <<"R", "U", "N", "E">>, <<" ">>, <<"-">>,
     <<".">>, <<"_">>, <<"v", "1">>, <<"(", "x", ")">>, EnhancedEdition,
     DeluxeEdition}

\* Bound of the model: the parts of a folder name
MaxParts == 3

RECURSIVE Composed(_)
Composed(n) ==
    IF n = 0 THEN {<<>>}
    ELSE Composed(n - 1)
             \cup {head \o part : head \in Composed(n - 1), part \in NameParts}

\* The folder names the normalizer is given: the names of the examples and
\* every name of at most MaxParts parts but the empty one.
FolderNames ==
    {HaloEnhanced, HaloDefinitive, CyberpunkRaw, PortalRaw, SpiderManRune}
        \cup (Composed(MaxParts) \ {<<>>})

NormalizerInit ==
    /\ pc = "normalize"
    /\ folder_name \in FolderNames
    /\ env = [read |-> FALSE]
    /\ crash = "none"
    /\ root = <<>>
    /\ listing = <<>>
    /\ idx = 0
    /\ runs = 0
    /\ stats = ZeroStats
    /\ now = 0
    /\ access_token = NoToken
    /\ token_expires = 0
    /\ search_variations = <<>>
    /\ vi = 0
    /\ response = None
    /\ games = <<>>
    /\ page = 0
    /\ game = None
    /\ game_info = None
    /\ queries = <<>>
    /\ failed_search = FALSE
    /\ auth_requested = FALSE
    /\ prompted = FALSE
    /\ choice = NoChoice
    /\ outcome = "none"
    /\ history = [id \in FolderIds |-> "none"]

\* Lines 42-73: the variants of the name, the cleaned name first.
Normalize ==
    /\ pc = "normalize"
    /\ search_variations' = SearchVariations(folder_name)
    /\ pc' = "normalized"
    /\ UNCHANGED <<env, crash, root, listing, idx, runs, stats, now, client,
                   folder_name, vi, response, page, queries, failed_search,
                   resolution, auth_requested, outcome, history>>

\* The cleaned name is given to the normalizer as a folder name.
Renormalize ==
    /\ pc = "normalized"
    /\ folder_name' = search_variations[1]
    /\ pc' = "normalize"
    /\ UNCHANGED <<env, crash, root, listing, idx, runs, stats, now, client,
                   loopvars, resolution, auth_requested, outcome, history>>

NormalizerNext ==
    \/ Normalize
    \/ Renormalize

SpecNormalizer == NormalizerInit /\ [][NormalizerNext]_vars

HaloInfinite ==
    <<"H", "a", "l", "o", " ", "I", "n", "f", "i", "n", "i", "t", "e">>

HaloColonInfinite ==
    <<"H", "a", "l", "o", ":", " ", "I", "n", "f", "i", "n", "i", "t", "e">>

\* s is t with something taken off its end
ShorterFrom(s, t) == Len(s) < Len(t) /\ s = Take(t, Len(s))

\* C13: the variants of "Halo Infinite Enhanced Edition" hold
\* "Halo Infinite Enhanced Edition", "Halo Infinite" and "Halo: Infinite"
\* in that order; and for every name, each variant after the first is the
\* one before it with an edition suffix taken off, but for a last variant
\* that is the most reduced one with a colon after its first word.
C13_EditionVariants ==
    pc = "normalized"
        => /\ folder_name = HaloEnhanced
                 => \E i, j, k \in 1..Len(search_variations) :
                        /\ i < j /\ j < k
                        /\ search_variations[i] = HaloEnhanced
                        /\ search_variations[j] = HaloInfinite
                        /\ search_variations[k] = HaloColonInfinite
           /\ \A i \in 2..Len(search_variations) :
                  \/ ShorterFrom(search_variations[i],
                                 search_variations[i - 1])
                  \/ /\ i = Len(search_variations)
                     /\ \E w \in 1..Len(search_variations[i - 1]) :
                            search_variations[i] =
                                Take(search_variations[i - 1], w)
                                    \o <<":">>
                                    \o Drop(search_variations[i - 1], w + 1)

\* C14: cleaning a name that _clean_folder_name has already cleaned
\* returns it unchanged: clean(clean(x)) = clean(x) for every x.
C14_CleanIdempotent ==
    [][(pc = "normalize" /\ search_variations # <<>>)
          => search_variations'[1] = folder_name]_vars

====
